---- MODULE Spec2Model ----
(***************************************************************************)
(* Model of app_for_deployment.py: SimpleSentimentAnalyzer and             *)
(* SimpleTextSummarizer.  Texts are strings; a character is a string of    *)
(* length one.  Real numbers are fixed point: the operands of the scoring  *)
(* formulas are counted in units of 10^-5, the rounded results of          *)
(* round(x, 4) in units of 10^-4.                                          *)
(***************************************************************************)
EXTENDS Integers, Sequences, FiniteSets, TLC

VARIABLES
    text_is_none,     \* the argument `text` is None
    text,             \* the argument `text` ("" when it is None)
    max_sentences,    \* the argument `max_sentences`
    pc,               \* "input", "analyzed", "summarized", "resummarized"
    positive_count,   \* analyze_sentiment: local positive_count
    negative_count,   \* analyze_sentiment: local negative_count
    sentiment,        \* analyze_sentiment: the returned dict
    sentences,        \* generate_summary: local sentences
    word_freq,        \* generate_summary: local word_freq (a Counter)
    sentence_scores,  \* generate_summary: local sentence_scores, after .sort
    top_sentences,    \* generate_summary: local top_sentences
    summary,          \* generate_summary: the returned string
    resummary         \* generate_summary(summary, max_sentences): the returned string

vars == <<text_is_none, text, max_sentences, pc, positive_count, negative_count,
          sentiment, sentences, word_freq, sentence_scores, top_sentences, summary,
          resummary>>

(***************************************************************************)
(* Bounds of the model.                                                    *)
(***************************************************************************)
MaxChunks == 3
MaxK == 2

(***************************************************************************)
(* Characters and the string primitives of Python the code uses.           *)
(***************************************************************************)
Char(s, i) == SubSeq(s, i, i)

UpperLetters == "ABCDEFGHIJKLMNOPQRSTUVWXYZ"
LowerLetters == "abcdefghijklmnopqrstuvwxyz"
Digits == "0123456789"

CharsOf(s) == {Char(s, i) : i \in 1..Len(s)}

Whitespace == {" ", "\t", "\n", "\r", "\f"}
UpperChars == CharsOf(UpperLetters)
WordChars == UpperChars \cup CharsOf(LowerLetters) \cup CharsOf(Digits) \cup {"_"}

\* The lower-case letter of each upper-case one.
LowerMap ==
    [c \in UpperChars |->
        Char(LowerLetters, CHOOSE i \in 1..Len(UpperLetters) : Char(UpperLetters, i) = c)]

LowerChar(c) == IF c \in UpperChars THEN LowerMap[c] ELSE c

\* Python s.lower(), character by character (halving keeps the recursion shallow).
RECURSIVE lower(_)
lower(s) ==
    IF Len(s) = 0 THEN ""
    ELSE IF Len(s) = 1 THEN LowerChar(s)
    ELSE LET h == Len(s) \div 2
         IN  lower(SubSeq(s, 1, h)) \o lower(SubSeq(s, h + 1, Len(s)))

\* Variant: word matches only as a whole token of t.
ContainsWholeWordOnly(word, t) ==
    \E i \in 1..(Len(t) - Len(word) + 1) :
        /\ SubSeq(t, i, i + Len(word) - 1) = word
        /\ (i = 1 \/ Char(t, i - 1) \notin WordChars)
        /\ (i + Len(word) > Len(t) \/ Char(t, i + Len(word)) \notin WordChars)

\* Python `word in text_lower`: substring containment.
Contains(word, t) ==
    \E i \in 1..(Len(t) - Len(word) + 1) : SubSeq(t, i, i + Len(word) - 1) = word

\* Python s.split(sep) for a one-character separator.
RECURSIVE split(_, _)
split(s, sep) ==
    IF \A i \in 1..Len(s) : Char(s, i) # sep
    THEN <<s>>
    ELSE LET i == CHOOSE k \in 1..Len(s) :
                      Char(s, k) = sep /\ \A j \in 1..(k - 1) : Char(s, j) # sep
         IN  <<SubSeq(s, 1, i - 1)>> \o split(SubSeq(s, i + 1, Len(s)), sep)

\* Python s.strip().
strip(s) ==
    IF \A i \in 1..Len(s) : Char(s, i) \in Whitespace THEN ""
    ELSE SubSeq(s,
                CHOOSE a \in 1..Len(s) :
                    Char(s, a) \notin Whitespace
                    /\ \A i \in 1..(a - 1) : Char(s, i) \in Whitespace,
                CHOOSE b \in 1..Len(s) :
                    Char(s, b) \notin Whitespace
                    /\ \A i \in (b + 1)..Len(s) : Char(s, i) \in Whitespace)

\* Python re.findall(r'\w+', s): the maximal runs of word characters, in order.
RECURSIVE findall_words(_)
findall_words(s) ==
    IF \A i \in 1..Len(s) : Char(s, i) \notin WordChars THEN <<>>
    ELSE LET a == CHOOSE x \in 1..Len(s) :
                      Char(s, x) \in WordChars
                      /\ \A i \in 1..(x - 1) : Char(s, i) \notin WordChars
             b == CHOOSE y \in a..Len(s) :
                      (y = Len(s) \/ Char(s, y + 1) \notin WordChars)
                      /\ \A i \in a..y : Char(s, i) \in WordChars
         IN  <<SubSeq(s, a, b)>> \o findall_words(SubSeq(s, b + 1, Len(s)))

Min(a, b) == IF a <= b THEN a ELSE b
Max(a, b) == IF a >= b THEN a ELSE b
Abs(a) == IF a < 0 THEN -a ELSE a

\* Python round(x, 4) of a value given in units of 10^-5: the nearest multiple
\* of 10^-4, halves to the even one; the result is in units of 10^-4.
round4(x) ==
    LET m == Abs(x)
        q == m \div 10
        r == m % 10
        n == IF r > 5 \/ (r = 5 /\ q % 2 = 1) THEN q + 1 ELSE q
    IN  IF x < 0 THEN -n ELSE n

(***************************************************************************)
(* SimpleSentimentAnalyzer                                                 *)
(***************************************************************************)
positive_words == <<
    "good", "great", "excellent", "positive", "support", "agree", "approve",
    "like", "love", "amazing", "wonderful", "fantastic", "perfect",
    "outstanding", "brilliant", "commend", "endorse", "recommend", "beneficial",
    "effective", "successful", "impressive", "satisfactory", "adequate" >>

negative_words == <<
    "bad", "terrible", "awful", "negative", "oppose", "disagree", "disapprove",
    "hate", "dislike", "horrible", "disgusting", "worst", "fail", "problem",
    "issue", "concern", "flawed", "inadequate", "insufficient", "problematic",
    "disappointing", "unsatisfactory", "poor", "weak", "deficient" >>

\* The float literals of analyze_sentiment, in units of 10^-5.
PolarityCap == 80000
PolarityBase == 30000
ConfidenceCap == 100000
ConfidenceBase == 50000
Step == 10000

\* Variant: the difference without abs().
ConfidenceSigned(p, n) == Min(ConfidenceCap, ConfidenceBase + (p - n) * Step)

\* min(1.0, 0.5 + abs(positive_count - negative_count) * 0.1)
ConfidenceOf(p, n) == Min(ConfidenceCap, ConfidenceBase + Abs(p - n) * Step)

\* Variant: lexicon entries matched on word boundaries.
WordMatchesAsToken(word, text_lower) == ContainsWholeWordOnly(word, text_lower)

\* sum(1 for word in words if word in text_lower)
WordMatches(word, text_lower) == Contains(word, text_lower)

RECURSIVE CountMatches(_, _)
CountMatches(words, text_lower) ==
    IF words = <<>> THEN 0
    ELSE (IF WordMatches(Head(words), text_lower) THEN 1 ELSE 0)
         + CountMatches(Tail(words), text_lower)

\* Variant: without the min().
PositivePolarityUnclamped(p, n) == PolarityBase + (p - n) * Step

\* min(0.8, 0.3 + (positive_count - negative_count) * 0.1)
PositivePolarity(p, n) == Min(PolarityCap, PolarityBase + (p - n) * Step)

\* Variant: the difference added instead of subtracted.
NegativePolarityWrongSign(p, n) == Max(-PolarityCap, -PolarityBase + (n - p) * Step)

\* max(-0.8, -0.3 - (negative_count - positive_count) * 0.1)
NegativePolarity(p, n) == Max(-PolarityCap, -PolarityBase - (n - p) * Step)

EmptyResult == [label |-> "neutral", confidence |-> 0, polarity |-> 0]

\* The locals and the result of analyze_sentiment(text).
analyze_sentiment(none, t) ==
    IF none \/ t = ""
    THEN [pos |-> 0, neg |-> 0, result |-> EmptyResult]
    ELSE LET text_lower == lower(t)
             p == CountMatches(positive_words, text_lower)
             n == CountMatches(negative_words, text_lower)
             label == IF p > n THEN "positive"
                      ELSE IF n > p THEN "negative" ELSE "neutral"
             polarity == IF p > n THEN PositivePolarity(p, n)
                         ELSE IF n > p THEN NegativePolarity(p, n) ELSE 0
             confidence == ConfidenceOf(p, n)
         IN  [pos |-> p, neg |-> n,
              result |-> [label |-> label,
                          confidence |-> round4(confidence),
                          polarity |-> round4(polarity)]]

(***************************************************************************)
(* SimpleTextSummarizer                                                    *)
(***************************************************************************)
stop_words == {
    "the", "a", "an", "and", "or", "but", "in", "on", "at", "to", "for",
    "of", "with", "by", "is", "are", "was", "were", "be", "been", "being",
    "this", "that", "these", "those", "i", "you", "he", "she", "it", "we", "they" }

MinSentenceLen == 20
MinWordLen == 3
\* Variant: a message of two long sentences.
SentinelOfTwoSentences ==
    "No text was provided for summarization. Please provide some text to summarize."

\* return "No text provided for summarization."
Sentinel == "No text provided for summarization."

\* Variant: >= instead of >.
KeepsSentenceFrom20(s) == Len(strip(s)) >= MinSentenceLen

\* [s.strip() for s in text.split('.') if len(s.strip()) > 20]
KeepsSentence(s) == Len(strip(s)) > MinSentenceLen

SplitSentences(t) ==
    LET pieces == split(t, ".")
        RECURSIVE Keep(_)
        Keep(ps) == IF ps = <<>> THEN <<>>
                    ELSE (IF KeepsSentence(Head(ps)) THEN <<strip(Head(ps))>> ELSE <<>>)
                         \o Keep(Tail(ps))
    IN  Keep(pieces)

\* Variant: one sentence too many passes.
ShortCircuitOffByOne(n, k) == n <= k + 1

\* if len(sentences) <= max_sentences: return text
ShortCircuit(n, k) == n <= k

\* Variant: without the length test.
CountedAnyLength(word) == word \notin stop_words

\* if word not in self.stop_words and len(word) > 3
Counted(word) == word \notin stop_words /\ Len(word) > MinWordLen

\* word_freq[word] += 1 on a Counter
Increment(freq, word) ==
    IF word \in DOMAIN freq THEN [freq EXCEPT ![word] = @ + 1]
    ELSE freq @@ (word :> 1)

RECURSIVE CountWords(_, _)
CountWords(words, freq) ==
    IF words = <<>> THEN freq
    ELSE CountWords(Tail(words),
                    IF Counted(Head(words)) THEN Increment(freq, Head(words)) ELSE freq)

RECURSIVE BuildWordFreq(_, _)
BuildWordFreq(ss, freq) ==
    IF ss = <<>> THEN freq
    ELSE BuildWordFreq(Tail(ss), CountWords(findall_words(lower(Head(ss))), freq))

\* sum(word_freq.get(word, 0) for word in words if word not in self.stop_words)
RECURSIVE SumScores(_, _)
SumScores(words, freq) ==
    IF words = <<>> THEN 0
    ELSE (IF Head(words) \notin stop_words /\ Head(words) \in DOMAIN freq
          THEN freq[Head(words)] ELSE 0)
         + SumScores(Tail(words), freq)

\* The list of (score, i, sentence) before the sort; i counts from 0.
ScoreSentences(ss, freq) ==
    [k \in 1..Len(ss) |->
        <<SumScores(findall_words(lower(ss[k])), freq), k - 1, ss[k]>>]

\* Variant: of equal scores the smaller i is the greater tuple.
TupleGreaterEarlierFirst(a, b) == a[1] > b[1] \/ (a[1] = b[1] /\ a[2] < b[2])

\* Python's order on the tuples (score, i, sentence).  i is unique in the
\* list, so no comparison reaches the sentence.
TupleGreater(a, b) == a[1] > b[1] \/ (a[1] = b[1] /\ a[2] > b[2])

\* sentence_scores.sort(reverse=True)
RECURSIVE InsertDescending(_, _)
InsertDescending(x, s) ==
    IF s = <<>> THEN <<x>>
    ELSE IF TupleGreater(x, Head(s)) THEN <<x>> \o s
    ELSE <<Head(s)>> \o InsertDescending(x, Tail(s))

RECURSIVE SortReverse(_)
SortReverse(s) ==
    IF s = <<>> THEN <<>>
    ELSE InsertDescending(s[Len(s)], SortReverse(SubSeq(s, 1, Len(s) - 1)))

\* sentence_scores[:max_sentences]
TakeTop(s, k) == SubSeq(s, 1, Min(Len(s), k))

\* sorted(..., key=lambda x: x[1]): stable, ascending in i (insertion)
RECURSIVE InsertByIndex(_, _)
InsertByIndex(x, s) ==
    IF s = <<>> THEN <<x>>
    ELSE IF x[2] < Head(s)[2] THEN <<x>> \o s
    ELSE <<Head(s)>> \o InsertByIndex(x, Tail(s))

\* Variant: the selection left in rank order.
NotResorted(s) == s

\* sorted(sentence_scores[:max_sentences], key=lambda x: x[1])
RECURSIVE SortedByIndex(_)
SortedByIndex(s) ==
    IF s = <<>> THEN <<>>
    ELSE InsertByIndex(s[Len(s)], SortedByIndex(SubSeq(s, 1, Len(s) - 1)))

\* '. '.join([sentence for _, _, sentence in top_sentences]) + '.'
RECURSIVE JoinSentences(_)
JoinSentences(ts) ==
    IF ts = <<>> THEN ""
    ELSE IF Len(ts) = 1 THEN ts[1][3]
    ELSE ts[1][3] \o ". " \o JoinSentences(Tail(ts))

\* The locals and the result of generate_summary(text, max_sentences).
generate_summary(none, t, k) ==
    IF none \/ t = ""
    THEN [sentences |-> <<>>, word_freq |-> <<>>, sentence_scores |-> <<>>,
          top_sentences |-> <<>>, result |-> Sentinel]
    ELSE LET ss == SplitSentences(t)
         IN  IF ShortCircuit(Len(ss), k)
             THEN [sentences |-> ss, word_freq |-> <<>>, sentence_scores |-> <<>>,
                   top_sentences |-> <<>>, result |-> t]
             ELSE LET freq == BuildWordFreq(ss, <<>>)
                      scores == SortReverse(ScoreSentences(ss, freq))
                      top == SortedByIndex(TakeTop(scores, k))
                  IN  [sentences |-> ss, word_freq |-> freq, sentence_scores |-> scores,
                       top_sentences |-> top, result |-> JoinSentences(top) \o "."]

(***************************************************************************)
(* Inputs: texts assembled from a few pieces (sentences that tie in score, *)
(* a sentence with a repeated word and an embedded lexicon word, a         *)
(* fragment of exactly 20 characters, a prefix without a period), and the  *)
(* two texts that hold every word of one lexicon.                          *)
(***************************************************************************)
Chunks == <<
    "Farmers support water policy now.",
    " Water policy support for farmers.",
    " I DISLIKE that water, water rule.",
    " This plan is too bad.\n",
    "Great" >>

RECURSIVE Concat(_)
Concat(cs) == IF cs = <<>> THEN "" ELSE Chunks[Head(cs)] \o Concat(Tail(cs))

RECURSIVE JoinWords(_)
JoinWords(ws) ==
    IF ws = <<>> THEN ""
    ELSE IF Len(ws) = 1 THEN ws[1] ELSE ws[1] \o " " \o JoinWords(Tail(ws))

ChunkTexts == {Concat(cs) : cs \in UNION {[1..n -> 1..Len(Chunks)] : n \in 0..MaxChunks}}

Inputs == ChunkTexts \cup {JoinWords(positive_words), JoinWords(negative_words)}

NoSentiment == [label |-> "none", confidence |-> 0, polarity |-> 0]

Init ==
    /\ text_is_none \in BOOLEAN
    /\ text \in (IF text_is_none THEN {""} ELSE Inputs)
    /\ max_sentences \in 1..MaxK
    /\ pc = "input"
    /\ positive_count = 0
    /\ negative_count = 0
    /\ sentiment = NoSentiment
    /\ sentences = <<>>
    /\ word_freq = <<>>
    /\ sentence_scores = <<>>
    /\ top_sentences = <<>>
    /\ summary = ""
    /\ resummary = ""

\* sentiment_analyzer.analyze_sentiment(text)
AnalyzeSentiment ==
    /\ pc = "input"
    /\ LET r == analyze_sentiment(text_is_none, text)
       IN  /\ positive_count' = r.pos
           /\ negative_count' = r.neg
           /\ sentiment' = r.result
    /\ pc' = "analyzed"
    /\ UNCHANGED <<text_is_none, text, max_sentences, sentences, word_freq,
                   sentence_scores, top_sentences, summary, resummary>>

\* text_summarizer.generate_summary(text, max_sentences)
GenerateSummary ==
    /\ pc = "analyzed"
    /\ LET r == generate_summary(text_is_none, text, max_sentences)
       IN  /\ sentences' = r.sentences
           /\ word_freq' = r.word_freq
           /\ sentence_scores' = r.sentence_scores
           /\ top_sentences' = r.top_sentences
           /\ summary' = r.result
    /\ pc' = "summarized"
    /\ UNCHANGED <<text_is_none, text, max_sentences, positive_count,
                   negative_count, sentiment, resummary>>

\* generate_summary applied to the summary it returned; the locals kept in
\* the state stay those of the first call.
Resummarize ==
    /\ pc = "summarized"
    /\ resummary' = generate_summary(FALSE, summary, max_sentences).result
    /\ pc' = "resummarized"
    /\ UNCHANGED <<text_is_none, text, max_sentences, positive_count, negative_count,
                   sentiment, sentences, word_freq, sentence_scores, top_sentences,
                   summary>>

Next == AnalyzeSentiment \/ GenerateSummary \/ Resummarize

Spec == Init /\ [][Next]_vars

(***************************************************************************)
(* Vocabulary of the properties, stated on positions of the text rather    *)
(* than with the operators above.                                          *)
(***************************************************************************)
Range(f) == {f[i] : i \in DOMAIN f}

\* The states right after analyze_sentiment and right after generate_summary
\* returned (later steps leave what they returned unchanged).
Analyzed == pc = "analyzed"
Summarized == pc = "summarized"
EmptyInput == text_is_none \/ text = ""

\* w occurs in t at some offset, character by character.
Occurs(w, t) ==
    \E i \in 0..(Len(t) - Len(w)) : \A j \in 1..Len(w) : Char(t, i + j) = Char(w, j)

\* The lexicon entries that occur in the lower-cased text, each once.
Matched(words) == LET lt == lower(text) IN {w \in Range(words) : Occurs(w, lt)}

\* The pieces of t between '.' characters, as pairs <<p, q>> of the cut
\* positions around them: the piece is t[p+1 .. q-1].
Cuts(t) == {0, Len(t) + 1} \cup {i \in 1..Len(t) : Char(t, i) = "."}
Pieces(t) ==
    LET c == Cuts(t)
    IN  {pq \in c \X c : pq[1] < pq[2] /\ \A d \in c : ~(pq[1] < d /\ d < pq[2])}
IsBlank(t, pq) == \A i \in (pq[1] + 1)..(pq[2] - 1) : Char(t, i) \in Whitespace
\* The first and the last position of the piece that hold no whitespace.
FirstSolid(t, pq) ==
    CHOOSE a \in (pq[1] + 1)..(pq[2] - 1) :
        Char(t, a) \notin Whitespace
        /\ \A i \in (pq[1] + 1)..(a - 1) : Char(t, i) \in Whitespace
LastSolid(t, pq) ==
    CHOOSE b \in (pq[1] + 1)..(pq[2] - 1) :
        Char(t, b) \notin Whitespace
        /\ \A i \in (b + 1)..(pq[2] - 1) : Char(t, i) \in Whitespace
TrimmedLen(t, pq) ==
    IF IsBlank(t, pq) THEN 0 ELSE LastSolid(t, pq) - FirstSolid(t, pq) + 1
Trimmed(t, pq) ==
    IF IsBlank(t, pq) THEN "" ELSE SubSeq(t, FirstSolid(t, pq), LastSolid(t, pq))
Qualifying(t) == {pq \in Pieces(t) : TrimmedLen(t, pq) > 20}
NumQualifying(t) == Cardinality(Qualifying(t))
\* The qualifying sentence of t with original_index i (from 0).
QualifyingAt(t, i) ==
    LET q == Qualifying(t)
    IN  Trimmed(t, CHOOSE pq \in q : Cardinality({r \in q : r[1] < pq[1]}) = i)

RankingInput == ~EmptyInput /\ NumQualifying(text) > max_sentences
RankingPath == Summarized /\ RankingInput
ShortCircuitPath == Summarized /\ ~EmptyInput /\ NumQualifying(text) <= max_sentences

Selected == {top_sentences[k][2] : k \in 1..Len(top_sentences)}
NotSelected == (0..(Len(sentences) - 1)) \ Selected
ScoreOf(i) == (CHOOSE e \in Range(sentence_scores) : e[2] = i)[1]

\* The word tokens of the qualifying sentences: <<k, a, token>> for the
\* token of sentences[k] that starts at position a, lower-cased.
TokenStarts(s) ==
    {a \in 1..Len(s) : Char(s, a) \in WordChars /\ (a = 1 \/ Char(s, a - 1) \notin WordChars)}
TokenEnd(s, a) ==
    CHOOSE b \in a..Len(s) :
        /\ \A j \in a..b : Char(s, j) \in WordChars
        /\ (b = Len(s) \/ Char(s, b + 1) \notin WordChars)
TokenAt(s, a) == lower(SubSeq(s, a, TokenEnd(s, a)))
Occurrences ==
    UNION {{<<k, a, TokenAt(sentences[k], a)>> : a \in TokenStarts(sentences[k])} :
              k \in 1..Len(sentences)}
CountedToken(w) == w \notin stop_words /\ Len(w) > 3
\* n: how often the token w occurs in the corpus of qualifying sentences.
CorpusCount(occ, w) == Cardinality({o \in occ : o[3] = w})
\* Sum over the counted tokens w of n(w) * m(w, k): the pairs of an
\* occurrence in sentences[k] and an occurrence of the same token anywhere.
PairScore(occ, k) ==
    Cardinality({oo \in {o \in occ : o[1] = k /\ CountedToken(o[3])} \X occ :
                    oo[1][3] = oo[2][3]})

(***************************************************************************)
(* C1.  As claimed: in the ranking path the selected sentences are the     *)
(* first max_sentences by score descending, ties broken by original_index  *)
(* ascending, so of two sentences of equal score the earlier is selected.  *)
(***************************************************************************)
C1_EarlierWinsTies ==
    RankingPath =>
        /\ Cardinality(Selected) = max_sentences
        /\ \A i \in Selected : \A j \in NotSelected :
               ScoreOf(i) > ScoreOf(j) \/ (ScoreOf(i) = ScoreOf(j) /\ i < j)

\* C1 as amended: in the ranking path the selected sentences are the first
\* max_sentences by score descending, ties broken by original_index
\* DESCENDING: of two sentences of equal score the later one is selected.
C1_LaterWinsTies ==
    RankingPath =>
        /\ Cardinality(Selected) = max_sentences
        /\ \A k \in 1..Len(top_sentences) :
               top_sentences[k][3] = sentences[top_sentences[k][2] + 1]
        /\ \A i \in Selected : \A j \in NotSelected :
               ScoreOf(i) > ScoreOf(j) \/ (ScoreOf(i) = ScoreOf(j) /\ i > j)

\* A ranking in which a selected and a rejected sentence have the same score.
C1_Witness ==
    /\ RankingPath
    /\ \E i \in Selected : \E j \in NotSelected : ScoreOf(i) = ScoreOf(j)

(***************************************************************************)
(* C2.  For every text the label is positive iff polarity > 0, negative    *)
(* iff polarity < 0, and neutral iff polarity = 0.                         *)
(***************************************************************************)
C2_LabelMatchesPolaritySign ==
    Analyzed =>
        /\ sentiment.label = "positive" <=> sentiment.polarity > 0
        /\ sentiment.label = "negative" <=> sentiment.polarity < 0
        /\ sentiment.label = "neutral" <=> sentiment.polarity = 0

C2_Witness ==
    /\ Analyzed
    /\ sentiment.label = "negative"
    /\ negative_count - positive_count >= 3

(***************************************************************************)
(* C3.  For every text confidence is within [0.0, 1.0] and polarity within *)
(* [-0.8, 0.8], texts that match a whole lexicon included.                 *)
(***************************************************************************)
C3_RangesHold ==
    Analyzed =>
        /\ 0 <= sentiment.confidence /\ sentiment.confidence <= 10000
        /\ -8000 <= sentiment.polarity /\ sentiment.polarity <= 8000

\* Every positive entry matched and no negative one: both clamps act.
C3_Witness ==
    /\ Analyzed
    /\ positive_count = Len(positive_words)
    /\ negative_count = 0
    /\ sentiment.polarity = 8000
    /\ sentiment.confidence = 10000

(***************************************************************************)
(* C4.  The result is the reference function of pos_count and neg_count,   *)
(* the numbers of lexicon entries occurring in the lower-cased text; empty *)
(* or null text gets exactly {neutral, 0.0, 0.0}.                          *)
(***************************************************************************)
Reference(p, n) ==
    [label |-> IF p > n THEN "positive" ELSE IF p < n THEN "negative" ELSE "neutral",
     confidence |-> Min(10000, 5000 + 1000 * Abs(p - n)),
     polarity |-> IF p > n THEN Min(8000, 3000 + 1000 * (p - n))
                  ELSE IF p < n THEN Max(-8000, -3000 - 1000 * (n - p))
                  ELSE 0]

C4_ResultIsReference ==
    Analyzed =>
        IF EmptyInput
        THEN sentiment = [label |-> "neutral", confidence |-> 0, polarity |-> 0]
        ELSE LET pos_count == Cardinality(Matched(positive_words))
                 neg_count == Cardinality(Matched(negative_words))
             IN  /\ positive_count = pos_count
                 /\ negative_count = neg_count
                 /\ sentiment = Reference(pos_count, neg_count)
                 /\ sentiment.label = "neutral" => sentiment.confidence = 5000

\* A negative text that also matches positive entries.
C4_Witness ==
    /\ Analyzed
    /\ ~EmptyInput
    /\ sentiment.label = "negative"
    /\ Cardinality(Matched(positive_words)) >= 1
    /\ Cardinality(Matched(negative_words)) > Cardinality(Matched(positive_words))

(***************************************************************************)
(* C5.  A non-empty text with at most max_sentences qualifying sentences   *)
(* is returned exactly unchanged; empty or null text returns the sentinel, *)
(* which is not the empty string.                                          *)
(***************************************************************************)
C5_ShortCircuitReturnsInput ==
    Summarized =>
        /\ EmptyInput => summary = Sentinel /\ summary # ""
        /\ ShortCircuitPath => summary = text

\* A returned text that holds short fragments and a line break.
C5_Witness ==
    /\ ShortCircuitPath
    /\ NumQualifying(text) >= 1
    /\ Cardinality(Pieces(text)) > NumQualifying(text) + 1
    /\ Occurs("\n", text)
    /\ summary = text

(***************************************************************************)
(* C6.  In the ranking path the sentences of the summary are qualifying    *)
(* sentences of the text, in strictly increasing original_index.           *)
(***************************************************************************)
C6_SummaryIsSubsequence ==
    RankingPath =>
        /\ Len(top_sentences) >= 1
        /\ \A k \in 1..Len(top_sentences) :
               /\ top_sentences[k][2] \in 0..(NumQualifying(text) - 1)
               /\ top_sentences[k][3] = QualifyingAt(text, top_sentences[k][2])
        /\ \A k \in 1..(Len(top_sentences) - 1) :
               top_sentences[k][2] < top_sentences[k + 1][2]
        /\ NumQualifying(summary) = Len(top_sentences)
        /\ \A k \in 1..Len(top_sentences) :
               QualifyingAt(summary, k - 1) = top_sentences[k][3]

\* The best-ranked sentence comes later in the text than the second-ranked,
\* and both are selected.
C6_Witness ==
    /\ RankingPath
    /\ max_sentences >= 2
    /\ sentence_scores[1][2] > sentence_scores[2][2]
    /\ Len(top_sentences) >= 2

(***************************************************************************)
(* C7.  On every return path the returned string holds at most             *)
(* max_sentences qualifying sentences.                                     *)
(***************************************************************************)
C7_AtMostKSentences ==
    Summarized => NumQualifying(summary) <= max_sentences

C7_Witness ==
    /\ RankingPath
    /\ NumQualifying(text) = max_sentences + 1
    /\ NumQualifying(summary) = max_sentences

(***************************************************************************)
(* C8.  In the ranking path the frequency table counts every occurrence of *)
(* each token that is no stop word and longer than 3 characters, and a     *)
(* sentence's score is the sum, over those tokens, of n * m.               *)
(***************************************************************************)
C8_FrequencyAndScore ==
    RankingPath =>
        LET occ == Occurrences
        IN  /\ DOMAIN word_freq = {o[3] : o \in {x \in occ : CountedToken(x[3])}}
            /\ \A w \in DOMAIN word_freq : word_freq[w] = CorpusCount(occ, w)
            /\ \A k \in 1..Len(sentences) : ScoreOf(k - 1) = PairScore(occ, k)

\* A corpus with a counted token twice in one sentence, a stop word longer
\* than 3 characters and a short token that is no stop word.
C8_Witness ==
    /\ RankingPath
    /\ LET occ == Occurrences
       IN  /\ \E o1 \in occ : \E o2 \in occ :
                  o1[1] = o2[1] /\ o1[2] # o2[2] /\ o1[3] = o2[3] /\ CountedToken(o1[3])
           /\ \E o \in occ : o[3] \in stop_words /\ Len(o[3]) > 3
           /\ \E o \in occ : o[3] \notin stop_words /\ Len(o[3]) <= 3

(***************************************************************************)
(* C9.  generate_summary is idempotent: applied to its own result with the *)
(* same max_sentences it returns that result.                              *)
(***************************************************************************)
C9_Idempotent ==
    pc = "resummarized" => resummary = summary

\* The second call follows a ranked selection.
C9_Witness ==
    /\ pc = "resummarized"
    /\ RankingInput
    /\ summary # text
    /\ resummary = summary

(***************************************************************************)
(* C10.  A text that contains one of the five negative entries with an     *)
(* embedded positive entry also counts that positive entry; if these two   *)
(* are its only matches it is neutral with polarity 0.0 and confidence 0.5.*)
(***************************************************************************)
EmbeddedPairs ==
    {<<"dislike", "like">>, <<"disagree", "agree">>, <<"disapprove", "approve">>,
     <<"inadequate", "adequate">>, <<"unsatisfactory", "satisfactory">>}

C10_EmbeddedPositiveCounts ==
    Analyzed /\ ~EmptyInput =>
        LET neg == Matched(negative_words)
            pos == Matched(positive_words)
        IN  /\ positive_count >=
                   Cardinality({e[2] : e \in {x \in EmbeddedPairs : x[1] \in neg}})
            /\ \A e \in EmbeddedPairs :
                   (neg = {e[1]} /\ pos = {e[2]}) =>
                       /\ positive_count = 1
                       /\ negative_count = 1
                       /\ sentiment =
                              [label |-> "neutral", confidence |-> 5000, polarity |-> 0]

C10_Witness ==
    /\ Analyzed
    /\ sentiment.label = "neutral"
    /\ Matched(negative_words) = {"dislike"}
    /\ Matched(positive_words) = {"like"}

====
